---- MODULE Spec2Model ----
(***************************************************************************)
(* StarPhysics (src/main.py): the stellar-evolution state machine.         *)
(*                                                                         *)
(* The program computes with Python floats.  The model computes with       *)
(* 32-bit integers in fixed point:                                         *)
(*   masses            in 1/MassScale solar masses                         *)
(*   hydrogen          in 1/FuelScale percent                              *)
(*   expansion factor  in 1/ExpScale                                       *)
(*   luminosity        in 1/LumScale solar luminosities                    *)
(*   radius            in 1/RadiusScale solar radii                        *)
(*   temperature       in kelvin                                           *)
(*   age, delta_time   in units of YearsPerUnit years                      *)
(* Every product is rounded down to the unit of its result, as a float     *)
(* product is rounded to the nearest double.  x ** y is computed the way   *)
(* the C library computes it, as 2 ** (y * log2 x), in QBits-bit fixed     *)
(* point.                                                                  *)
(***************************************************************************)
EXTENDS Integers, Sequences, FiniteSets, TLC

VARIABLES initial_mass, current_mass, h2_percentage, current_h2, age,
          luminosity, temperature, radius, initial_radius, stage,
          expansion_factor,
          color,      \* what get_color last returned to its caller
          emission    \* what get_emission last returned to its caller

vars == <<initial_mass, current_mass, h2_percentage, current_h2, age,
          luminosity, temperature, radius, initial_radius, stage,
          expansion_factor, color, emission>>

(***************************************************************************)
(* Units.                                                                  *)
(***************************************************************************)
MassScale == 100

FuelScale == 1000

ExpScale == 1000

LumScale == 1000000

RadiusScale == 1000

YearsPerUnit == 12500

(***************************************************************************)
(* Bounds of the model.                                                    *)
(*   MaxAge       the age horizon, in time units.  It lies above every     *)
(*                value the code compares age with (formation time, main   *)
(*                sequence lifetime) for the stars of Init, so an age at   *)
(*                the horizon and any later age drive determine_stage and  *)
(*                update_expansion_factor the same way; ages are kept up   *)
(*                to the horizon and held there.                           *)
(*   TickHorizon  the small time step is enumerated while age is below it. *)
(*   MaxExpansion the largest expansion factor kept (the Supernova growth  *)
(*                has no bound in the code).                               *)
(***************************************************************************)
MaxAge == 8000000

TickHorizon == 8

MaxExpansion == 1000000

Min(a, b) == IF a <= b THEN a ELSE b

Max(a, b) == IF a >= b THEN a ELSE b

(***************************************************************************)
(* Fixed-point arithmetic.                                                 *)
(***************************************************************************)
QBits == 14

QOne == 2 ^ QBits

RECURSIVE FloorLog2(_)
FloorLog2(n) == IF n < 2 THEN 0 ELSE 1 + FloorLog2(n \div 2)

\* floor(a*b/c) for a, b >= 0 and c > 0 without forming a*b: long division
\* over the bits of a from bit i down, q the quotient and r the remainder so far
RECURSIVE MulDivBits(_, _, _, _, _, _)
MulDivBits(a, b, c, i, q, r) ==
    IF i < 0 THEN q
    ELSE MulDivBits(a, b, c, i - 1,
                    2 * q + (2 * r + ((a \div 2 ^ i) % 2) * b) \div c,
                    (2 * r + ((a \div 2 ^ i) % 2) * b) % c)

MulDiv(a, b, c) == MulDivBits(a, b, c, FloorLog2(a), 0, 0)

\* the fraction bits of log2(y / QOne) for QOne <= y < 2 * QOne, by squaring
RECURSIVE Log2Frac(_, _)
Log2Frac(y, w) ==
    IF w = 0 THEN 0
    ELSE LET sq == (y * y + QOne \div 2) \div QOne
         IN  IF sq >= 2 * QOne THEN w + Log2Frac(sq \div 2, w \div 2)
                               ELSE Log2Frac(sq, w \div 2)

\* QOne * log2(n) for an integer n >= 1
Log2Q(n) ==
    LET k == FloorLog2(n)
        y == IF k <= QBits THEN n * 2 ^ (QBits - k) ELSE n \div 2 ^ (k - QBits)
    IN  k * QOne + Log2Frac(y, QOne \div 2)

\* QOne * 2 ^ (1 / 2 ^ i), i = 1 .. QBits
Root2 == <<23170, 19484, 17867, 17109, 16743, 16562, 16473,
           16428, 16406, 16395, 16390, 16387, 16385, 16385>>

\* QOne * 2 ^ (f / QOne) for 0 <= f < QOne: the product of the roots of f's bits
RECURSIVE Exp2Frac(_, _, _)
Exp2Frac(f, i, r) ==
    IF i > QBits THEN r
    ELSE IF (f \div 2 ^ (QBits - i)) % 2 = 1
         THEN Exp2Frac(f, i + 1, (r * Root2[i] + QOne \div 2) \div QOne)
         ELSE Exp2Frac(f, i + 1, r)

\* outScale * 2 ^ (e / QOne)
Exp2Scaled(e, outScale) ==
    LET k == e \div QOne
        r == Exp2Frac(e % QOne, 1, QOne)
    IN  IF QBits - k > 29 THEN 0
        ELSE IF k > QBits THEN MulDiv(r, outScale, 1) * 2 ^ (k - QBits)
        ELSE MulDiv(r, outScale, 2 ^ (QBits - k))

\* outScale * (n / inScale) ** (num / den) for n >= 0
PowFix(n, inScale, num, den, outScale) ==
    IF n = 0 THEN 0
    ELSE Exp2Scaled(((Log2Q(n) - Log2Q(inScale)) * num) \div den, outScale)

(***************************************************************************)
(* A negative float raised to a fractional power is a complex number in    *)
(* Python; luminosity, temperature and radius then hold complex values.    *)
(* The model keeps the marker Complex in their place.                      *)
(***************************************************************************)
Complex == -1

(***************************************************************************)
(* The stars constructed and the time steps fed to update.                 *)
(* main() passes the dialog's two numbers to StarPhysics unchecked and     *)
(* calls update once per frame with clock time * time_acceleration, which  *)
(* the user doubles or halves without limit; the first frame's delta is 0. *)
(*   Tick  12 500 years: below every formation time of Init's stars        *)
(*   Era   50 000 000 000 years: a Red Giant call loses half the mass      *)
(*   Aeon  150 000 000 000 years: above the 1e11 years at which the mass   *)
(*         loss of one call equals the whole mass                          *)
(***************************************************************************)
InitialMasses == {MassScale \div 2, MassScale, 2 * MassScale}

InitialFuels == {0, 71 * FuelScale}

Tick == 12500 \div YearsPerUnit

Aeon == (150000 \div YearsPerUnit) * 1000000

Era == (50000 \div YearsPerUnit) * 1000000

DeltaTimes == {0, Tick, Era, Aeon}

Stages == {"Protostar", "Main Sequence", "Red Giant", "White Dwarf", "Supernova"}

(***************************************************************************)
(* update_stellar_properties and what it calls.                            *)
(***************************************************************************)
\* the mass-luminosity relation
Luminosity(mass) ==
    IF mass < 0 THEN Complex
    ELSE IF mass * 100 < 43 * MassScale
         THEN (23 * PowFix(mass, MassScale, 23, 10, LumScale)) \div 100
    ELSE IF mass < 2 * MassScale
         THEN PowFix(mass, MassScale, 4, 1, LumScale)
    ELSE MulDiv(PowFix(mass, MassScale, 35, 10, LumScale), 14, 10)

Temperature(lum) ==
    IF lum = Complex THEN Complex
    ELSE (5778 * PowFix(lum, LumScale, 1, 4, 1000)) \div 1000

calculate_base_radius(mass) ==
    IF mass < 0 THEN Complex
    ELSE IF mass < MassScale THEN PowFix(mass, MassScale, 8, 10, RadiusScale)
    ELSE PowFix(mass, MassScale, 57, 100, RadiusScale)

\* base_radius * expansion_factor
Radius(base, exp) ==
    IF base = Complex THEN Complex ELSE (base * exp) \div ExpScale

\* 50000 * (1 / initial_mass) years
get_formation_time(m0) == (50000 * MassScale) \div (m0 * YearsPerUnit)

\* 1e10 * initial_mass ** -2.5 * (h2_percentage / 71) years
get_main_sequence_lifetime(m0, h0) ==
    MulDiv(PowFix(m0, MassScale, -25, 10, 1000) * (10000000 \div YearsPerUnit),
           h0, 71 * FuelScale)

(***************************************************************************)
(* The powers above, tabulated once over the values the model meets:       *)
(* masses up to the heaviest star of Init in either sign, the stars of     *)
(* Init, the time steps of DeltaTimes.                                     *)
(***************************************************************************)
MassRange == (0 - 2 * MassScale)..(2 * MassScale)

PropertyTable ==
    [mass \in MassRange |->
        [luminosity |-> Luminosity(mass),
         temperature |-> Temperature(Luminosity(mass)),
         base_radius |-> calculate_base_radius(mass)]]

LifetimeTable ==
    [m0 \in InitialMasses |->
        [h0 \in InitialFuels |-> get_main_sequence_lifetime(m0, h0)]]

\* determine_stage with the Supernova test inverted (old_stage == "Supernova")
NewStageInverted(old, a, h2, mass, m0) ==
    IF a < get_formation_time(m0) THEN "Protostar"
    ELSE IF h2 * 10 > FuelScale THEN "Main Sequence"
    ELSE IF mass * 100 > 144 * MassScale
         THEN IF old = "Supernova" THEN "Red Giant" ELSE "Supernova"
    ELSE IF h2 * 10 <= FuelScale /\ old # "White Dwarf" THEN "Red Giant"
    ELSE "White Dwarf"

\* the stage determine_stage computes from the previous one
NewStage(old, a, h2, mass, m0) ==
    IF a < get_formation_time(m0) THEN "Protostar"
    ELSE IF h2 * 10 > FuelScale THEN "Main Sequence"
    ELSE IF mass * 100 > 144 * MassScale
         THEN IF old # "Supernova" THEN "Red Giant" ELSE "Supernova"
    ELSE IF h2 * 10 <= FuelScale /\ old # "White Dwarf" THEN "Red Giant"
    ELSE "White Dwarf"

\* handle_stage_transition with the burst on every entry into Red Giant
\* (the test old_stage == "Main Sequence" left out)
handle_stage_transition_any_entry(old, new, exp) ==
    IF new = "Red Giant" THEN exp * 2
    ELSE IF new = "Supernova" THEN Min(MaxExpansion, exp * 10)
    ELSE exp

\* handle_stage_transition without the Red Giant burst
handle_stage_transition_no_burst(old, new, exp) ==
    IF new = "Supernova" THEN Min(MaxExpansion, exp * 10) ELSE exp

\* the expansion factor after the transition old -> new
handle_stage_transition(old, new, exp) ==
    IF old = "Main Sequence" /\ new = "Red Giant" THEN exp * 2
    ELSE IF new = "Supernova" THEN Min(MaxExpansion, exp * 10)
    ELSE exp

\* the expansion factor determine_stage leaves
StageTransition(old, new, exp) ==
    IF old # new THEN handle_stage_transition(old, new, exp) ELSE exp

RedGiantTarget(m0) ==
    IF m0 * 100 > 144 * MassScale THEN 100 * ExpScale ELSE 50 * ExpScale

\* update_expansion_factor with the Main Sequence growth added to the factor
\* on every call (+= in place of = 1.0 +)
update_expansion_factor_accumulating(st, exp, a, m0, h0) ==
    CASE st = "Protostar" ->
           LET ft == get_formation_time(m0)
               time_factor == IF a >= ft THEN ExpScale ELSE (a * ExpScale) \div ft
           IN  2 * ExpScale - time_factor
      [] st = "Main Sequence" ->
           LET ms_lifetime == LifetimeTable[m0][h0]
               progress == IF a >= ms_lifetime THEN ExpScale
                           ELSE MulDiv(a, ExpScale, ms_lifetime)
           IN  IF ms_lifetime > 0 THEN Min(MaxExpansion, exp + progress \div 2)
               ELSE exp
      [] st = "Red Giant" -> Min(RedGiantTarget(m0), exp + ExpScale \div 10)
      [] st = "White Dwarf" -> Max(ExpScale \div 100, (exp * 95) \div 100)
      [] st = "Supernova" -> Min(MaxExpansion, (exp * 3) \div 2)

\* update_expansion_factor with the Red Giant step subtracted (- in place of +)
update_expansion_factor_shrinking(st, exp, a, m0, h0) ==
    CASE st = "Protostar" ->
           LET ft == get_formation_time(m0)
               time_factor == IF a >= ft THEN ExpScale ELSE (a * ExpScale) \div ft
           IN  2 * ExpScale - time_factor
      [] st = "Main Sequence" ->
           LET ms_lifetime == LifetimeTable[m0][h0]
               progress == IF a >= ms_lifetime THEN ExpScale
                           ELSE MulDiv(a, ExpScale, ms_lifetime)
           IN  IF ms_lifetime > 0 THEN ExpScale + progress \div 2 ELSE exp
      [] st = "Red Giant" -> Min(RedGiantTarget(m0), exp - ExpScale \div 10)
      [] st = "White Dwarf" -> Max(ExpScale \div 100, (exp * 95) \div 100)
      [] st = "Supernova" -> Min(MaxExpansion, (exp * 3) \div 2)

\* update_expansion_factor with a Red Giant step of 0.2 in place of 0.1
update_expansion_factor_double_step(st, exp, a, m0, h0) ==
    CASE st = "Protostar" ->
           LET ft == get_formation_time(m0)
               time_factor == IF a >= ft THEN ExpScale ELSE (a * ExpScale) \div ft
           IN  2 * ExpScale - time_factor
      [] st = "Main Sequence" ->
           LET ms_lifetime == LifetimeTable[m0][h0]
               progress == IF a >= ms_lifetime THEN ExpScale
                           ELSE MulDiv(a, ExpScale, ms_lifetime)
           IN  IF ms_lifetime > 0 THEN ExpScale + progress \div 2 ELSE exp
      [] st = "Red Giant" -> Min(RedGiantTarget(m0), exp + ExpScale \div 5)
      [] st = "White Dwarf" -> Max(ExpScale \div 100, (exp * 95) \div 100)
      [] st = "Supernova" -> Min(MaxExpansion, (exp * 3) \div 2)

update_expansion_factor(st, exp, a, m0, h0) ==
    CASE st = "Protostar" ->
           LET ft == get_formation_time(m0)
               time_factor == IF a >= ft THEN ExpScale ELSE (a * ExpScale) \div ft
           IN  2 * ExpScale - time_factor
      [] st = "Main Sequence" ->
           LET ms_lifetime == LifetimeTable[m0][h0]
               progress == IF a >= ms_lifetime THEN ExpScale
                           ELSE MulDiv(a, ExpScale, ms_lifetime)
           IN  IF ms_lifetime > 0 THEN ExpScale + progress \div 2 ELSE exp
      [] st = "Red Giant" -> Min(RedGiantTarget(m0), exp + ExpScale \div 10)
      [] st = "White Dwarf" -> Max(ExpScale \div 100, (exp * 95) \div 100)
      [] st = "Supernova" -> Min(MaxExpansion, (exp * 3) \div 2)

\* the attributes update_stellar_properties assigns, from the ones it reads
update_stellar_properties(m0, h0, mass, h2, a, old, exp) ==
    LET new == NewStage(old, a, h2, mass, m0)
    IN  [luminosity |-> PropertyTable[mass].luminosity,
         temperature |-> PropertyTable[mass].temperature,
         radius |-> Radius(PropertyTable[mass].base_radius, exp),
         stage |-> new,
         expansion_factor |->
             update_expansion_factor(new, StageTransition(old, new, exp), a, m0, h0)]

(***************************************************************************)
(* StarPhysics(initial_mass, h2_percentage)                                *)
(***************************************************************************)
\* nothing read from an accessor yet
NotRead == <<>>

\* the object __init__ leaves for the arguments m0, h0
Construct(m0, h0) ==
    LET p == update_stellar_properties(m0, h0, m0, h0, 0, "Protostar", ExpScale)
    IN  /\ initial_mass = m0
        /\ current_mass = m0
        /\ h2_percentage = h0
        /\ current_h2 = h0
        /\ age = 0
        /\ luminosity = p.luminosity
        /\ temperature = p.temperature
        /\ radius = p.radius
        /\ initial_radius = p.radius
        /\ stage = p.stage
        /\ expansion_factor = p.expansion_factor
        /\ color = NotRead
        /\ emission = NotRead

Init == \E m0 \in InitialMasses, h0 \in InitialFuels : Construct(m0, h0)

(***************************************************************************)
(* StarPhysics called with a mass that is not positive.  __init__ tests    *)
(* nothing.  With mass 0 get_formation_time divides by zero; with a        *)
(* negative mass and more than 0.1 percent hydrogen the stage resolves to  *)
(* Main Sequence and update_expansion_factor compares the complex          *)
(* lifetime with 0, a TypeError; with a negative mass and no hydrogen the  *)
(* stage resolves to Red Giant and the constructor returns an object.      *)
(***************************************************************************)
NonPositiveMasses == {0 - MassScale, 0}

ConstructionError(m0, h0) ==
    IF m0 = 0 THEN "ZeroDivisionError"
    ELSE IF m0 < 0 /\ h0 * 10 > FuelScale THEN "TypeError"
    ELSE "none"

\* the objects a caller gets for a mass of either sign
UncheckedInit ==
    \E m0 \in InitialMasses \cup NonPositiveMasses, h0 \in InitialFuels :
        /\ ConstructionError(m0, h0) = "none"
        /\ Construct(m0, h0)

(***************************************************************************)
(* update(delta_time)                                                      *)
(***************************************************************************)
\* 1e10 years * FuelScale / 0.1, in time units, over the scale of mass ** 3.5
RateUnits == (10000000 \div YearsPerUnit) * 10000

\* update tests nothing about delta_time: a negative one is taken as it is
NegativeDeltaTimes == {0 - Tick}

AllDeltaTimes == DeltaTimes \cup NegativeDeltaTimes

Abs(n) == IF n >= 0 THEN n ELSE 0 - n

\* h2_consumption_rate * delta_time
H2Consumed(mass, dt) ==
    IF dt >= 0 THEN MulDiv(dt, PowFix(mass, MassScale, 35, 10, 1000), RateUnits)
    ELSE 0 - MulDiv(0 - dt, PowFix(mass, MassScale, 35, 10, 1000), RateUnits)

\* mass_loss_rate * delta_time = 1e-11 * current_mass * delta_time
MassLost(mass, dt) ==
    IF (mass >= 0) = (dt >= 0) THEN MulDiv(Abs(dt), Abs(mass), RateUnits)
    ELSE 0 - MulDiv(Abs(dt), Abs(mass), RateUnits)

H2ConsumedTable ==
    [mass \in 0..(2 * MassScale) |->
        [dt \in AllDeltaTimes |-> H2Consumed(mass, dt)]]

MassLostTable ==
    [mass \in MassRange |-> [dt \in AllDeltaTimes |-> MassLost(mass, dt)]]

AgeAfter(a, dt) == Min(a + dt, MaxAge)

\* update with the fuel burnt in every stage (the stage test left out)
H2AfterAnyStage(st, mass, h2, dt) ==
    IF mass >= 0 THEN Max(0, h2 - H2ConsumedTable[mass][dt]) ELSE h2

\* update with the fuel burnt from construction on (Protostar taken for
\* Main Sequence in the stage test)
H2AfterProtostar(st, mass, h2, dt) ==
    IF st \in {"Protostar", "Main Sequence"}
    THEN Max(0, h2 - H2ConsumedTable[mass][dt])
    ELSE h2

\* update without max(0, current_h2)
H2AfterUnclamped(st, mass, h2, dt) ==
    IF st = "Main Sequence" THEN h2 - H2ConsumedTable[mass][dt] ELSE h2

H2After(st, mass, h2, dt) ==
    IF st = "Main Sequence" THEN Max(0, h2 - H2ConsumedTable[mass][dt]) ELSE h2

MassAfter(st, mass, dt) ==
    IF st = "Red Giant" THEN mass - MassLostTable[mass][dt] ELSE mass

\* update with update_stellar_properties called before the fuel and the mass
\* are updated: the stage is determined from the fuel and mass at entry
update_stage_first(delta_time) ==
    LET a == AgeAfter(age, delta_time)
        h2 == H2After(stage, current_mass, current_h2, delta_time)
        mass == MassAfter(stage, current_mass, delta_time)
        p == update_stellar_properties(initial_mass, h2_percentage, current_mass,
                                       current_h2, a, stage, expansion_factor)
    IN  /\ age' = a
        /\ current_h2' = h2
        /\ current_mass' = mass
        /\ luminosity' = p.luminosity
        /\ temperature' = p.temperature
        /\ radius' = p.radius
        /\ stage' = p.stage
        /\ expansion_factor' = p.expansion_factor
        /\ UNCHANGED <<initial_mass, h2_percentage, initial_radius, color,
                       emission>>

update(delta_time) ==
    LET a == AgeAfter(age, delta_time)
        h2 == H2After(stage, current_mass, current_h2, delta_time)
        mass == MassAfter(stage, current_mass, delta_time)
        p == update_stellar_properties(initial_mass, h2_percentage, mass, h2, a,
                                       stage, expansion_factor)
    IN  /\ age' = a
        /\ current_h2' = h2
        /\ current_mass' = mass
        /\ luminosity' = p.luminosity
        /\ temperature' = p.temperature
        /\ radius' = p.radius
        /\ stage' = p.stage
        /\ expansion_factor' = p.expansion_factor
        /\ UNCHANGED <<initial_mass, h2_percentage, initial_radius, color,
                       emission>>

\* the main loop: one update per frame
Next ==
    \E dt \in DeltaTimes :
        /\ dt = Tick => age < TickHorizon
        /\ update(dt)

Spec == Init /\ [][Next]_vars

\* the frames whose delta_time is positive
Advance ==
    \E dt \in DeltaTimes \ {0} :
        /\ dt = Tick => age < TickHorizon
        /\ update(dt)

\* update called again and again with positive delta_time: the loop of main()
\* never stops calling it
LiveSpec == Init /\ [][Advance]_vars /\ WF_vars(Advance)

\* the loop of main() with every delta_time, the first frame's 0 included
FairSpec == Init /\ [][Next]_vars /\ WF_vars(Next)

\* update called with delta_time of either sign; the negative step is
\* enumerated while age is within TickHorizon of 0
Rewind ==
    \E dt \in AllDeltaTimes :
        /\ dt = Tick => age < TickHorizon
        /\ dt < 0 => age <= TickHorizon /\ age > 0 - TickHorizon
        /\ update(dt)

RewindSpec == Init /\ [][Rewind]_vars

\* update called on the objects a caller gets for a mass of either sign
UncheckedSpec == UncheckedInit /\ [][Next]_vars

(***************************************************************************)
(* The accessors get_color and get_emission.                               *)
(***************************************************************************)
Red == <<10, 0, 0>>

Orange == <<10, 5, 0>>

Yellow == <<10, 10, 0>>

White == <<10, 10, 10>>

BlueWhite == <<8, 8, 10>>

\* get_color with the band limits closed above (<= in place of <)
get_color_closed(temp) ==
    IF temp <= 3500 THEN Red
    ELSE IF temp <= 5000 THEN Orange
    ELSE IF temp <= 6000 THEN Yellow
    ELSE IF temp <= 7500 THEN White
    ELSE BlueWhite

\* the RGB triple, in tenths, for a real temperature
get_color(temp) ==
    IF temp < 3500 THEN Red
    ELSE IF temp < 5000 THEN Orange
    ELSE IF temp < 6000 THEN Yellow
    ELSE IF temp < 7500 THEN White
    ELSE BlueWhite

EmissionScale == 1000

\* EmissionScale * min(1.0, 0.2 + log10(luminosity) / 5) for luminosity > 0,
\* log10 x being log2 x / log2 10
get_emission(lum) ==
    Min(EmissionScale,
        EmissionScale \div 5
          + (((Log2Q(lum) - Log2Q(LumScale)) * (EmissionScale \div 5))
               \div Log2Q(10)))

\* the temperatures and luminosities the accessors are read at: the band
\* limits of get_color and their neighbours, the luminosities of the stars
\* of Init and powers of ten around them
ProbeTemperatures ==
    {3000, 3499, 3500, 3501, 4000, 4999, 5000, 5001, 5999, 6000, 6001, 7499,
     7500, 7501, 8000}

ProbeLuminosities ==
    {PropertyTable[m0].luminosity : m0 \in InitialMasses}
        \cup {LumScale \div 1000, LumScale \div 10, LumScale, 1000 * LumScale}

ProbeInit ==
    \E m0 \in InitialMasses, h0 \in InitialFuels,
       temp \in ProbeTemperatures, lum \in ProbeLuminosities :
        LET p == update_stellar_properties(m0, h0, m0, h0, 0, "Protostar", ExpScale)
        IN  /\ initial_mass = m0
            /\ current_mass = m0
            /\ h2_percentage = h0
            /\ current_h2 = h0
            /\ age = 0
            /\ luminosity = lum
            /\ temperature = temp
            /\ radius = p.radius
            /\ initial_radius = p.radius
            /\ stage = p.stage
            /\ expansion_factor = p.expansion_factor
            /\ color = NotRead
            /\ emission = NotRead

ReadColor ==
    /\ color' = get_color(temperature)
    /\ UNCHANGED <<initial_mass, current_mass, h2_percentage, current_h2, age,
                   luminosity, temperature, radius, initial_radius, stage,
                   expansion_factor, emission>>

ReadEmission ==
    /\ emission' = <<get_emission(luminosity)>>
    /\ UNCHANGED <<initial_mass, current_mass, h2_percentage, current_h2, age,
                   luminosity, temperature, radius, initial_radius, stage,
                   expansion_factor, color>>

Probe == ReadColor \/ ReadEmission

ProbeSpec == ProbeInit /\ [][Probe]_vars

TypeOK ==
    /\ initial_mass \in InitialMasses
    /\ h2_percentage \in InitialFuels
    /\ stage \in Stages
    /\ age \in 0..MaxAge
    /\ current_h2 \in 0..h2_percentage
    /\ expansion_factor \in 1..MaxExpansion

(***************************************************************************)
(* Properties.                                                             *)
(***************************************************************************)
FormationTime == get_formation_time(initial_mass)

\* the initial masses above the Chandrasekhar limit of 1.44
HeavyMasses == {m0 \in InitialMasses : m0 * 100 > 144 * MassScale}

Chandrasekhar == initial_mass \in HeavyMasses

TwoSolarMasses == 2 * MassScale

HasFuel == h2_percentage * 10 > FuelScale

\* the position of a stage in Protostar < Main Sequence < Red Giant <
\* {White Dwarf, Supernova}
StageRank(st) ==
    CASE st = "Protostar" -> 0
      [] st = "Main Sequence" -> 1
      [] st = "Red Giant" -> 2
      [] st = "White Dwarf" -> 3
      [] st = "Supernova" -> 3

\* C1: a star of initial mass <= 1.44, updated again and again with positive
\* delta_time, passes through Red Giant and eventually is a White Dwarf.
C1_ReachesWhiteDwarf ==
    <>(Chandrasekhar \/ (stage = "Red Giant" /\ <>(stage = "White Dwarf")))

\* C2: a star of initial mass 2.0 that has reached Red Giant, updated again
\* and again with positive delta_time, eventually is a Supernova and stays one.
C2_ReachesSupernova ==
    (initial_mass = TwoSolarMasses /\ stage = "Red Giant")
        ~> [](stage = "Supernova")

C4_RadiusFollowsExpansion ==
    radius = Radius(calculate_base_radius(current_mass), expansion_factor)

\* C5: no update moves the stage backward in Protostar < Main Sequence <
\* Red Giant < {White Dwarf, Supernova}.
C5_StageNeverMovesBack ==
    [][StageRank(stage') >= StageRank(stage)]_vars

\* a star that went Protostar, Main Sequence, Red Giant
C5_Witness ==
    stage = "Red Giant" /\ HasFuel /\ current_h2 < h2_percentage

\* C6: a star constructed with more than 0.1 percent hydrogen is a Protostar
\* as long as age < formation time, and the update that brings age to the
\* formation time or beyond yields Main Sequence with the hydrogen untouched.
C6_ProtostarThenMainSequence ==
    /\ [](HasFuel /\ age < FormationTime => stage = "Protostar")
    /\ [][HasFuel /\ age < FormationTime /\ age' >= FormationTime =>
             stage' = "Main Sequence" /\ current_h2' = h2_percentage]_vars

\* a star just formed by a large step: Main Sequence, hydrogen as constructed
C6_Witness ==
    /\ stage = "Main Sequence"
    /\ current_h2 = h2_percentage
    /\ age >= Era

\* C7 as stated: for mass 2.0 and no hydrogen, the update that brings age to
\* the formation time yields Red Giant, and the expansion factor gets a burst
\* (one of the code's two burst factors) besides the Red Giant +0.1.
C7_FormationBurst ==
    [][initial_mass = TwoSolarMasses /\ h2_percentage = 0
         /\ age < FormationTime /\ age' >= FormationTime =>
             /\ stage' = "Red Giant"
             /\ \E k \in {2, 10} :
                    expansion_factor' =
                        Min(RedGiantTarget(initial_mass),
                            k * expansion_factor + ExpScale \div 10)]_vars

\* C7 as amended: that update yields Red Giant, and the expansion factor gets
\* the Red Giant +0.1 on its Protostar value and no burst.
C7_FormationNoBurst ==
    [][initial_mass = TwoSolarMasses /\ h2_percentage = 0
         /\ age < FormationTime /\ age' >= FormationTime =>
             /\ stage' = "Red Giant"
             /\ expansion_factor' =
                    Min(RedGiantTarget(initial_mass),
                        expansion_factor + ExpScale \div 10)]_vars

\* the star of C7 right after that update: a Red Giant whose factor is below
\* any doubled Protostar value
C7_Witness ==
    /\ initial_mass = TwoSolarMasses
    /\ h2_percentage = 0
    /\ stage = "Red Giant"
    /\ current_mass = initial_mass
    /\ expansion_factor < 2 * ExpScale

\* On the reachable states the stage is a function of initial_mass,
\* current_mass, current_h2 and age (C8 asks for two states that differ).
StageOfQuantities ==
    stage = IF age < FormationTime THEN "Protostar"
            ELSE IF current_h2 * 10 > FuelScale THEN "Main Sequence"
            ELSE "Red Giant"

\* C9: current_h2 is never negative and no update increases it.
C9_FuelNeverNegativeNorGrows ==
    /\ [](current_h2 >= 0)
    /\ [][current_h2' <= current_h2]_vars

\* the heavy star has burnt its hydrogen; no number of its steps takes
\* exactly 71 percent, so the last one was cut off at 0
C9_Witness ==
    /\ initial_mass = TwoSolarMasses
    /\ h2_percentage > 0
    /\ current_h2 = 0

\* C10: no update increases current_mass, and an update changes current_mass
\* only when the stage at its entry is Red Giant.
C10_MassOnlyFallsInRedGiant ==
    [][/\ current_mass' <= current_mass
       /\ stage # "Red Giant" => current_mass' = current_mass]_vars

\* C11: expansion_factor is strictly positive in every state reached from the
\* construction of a star of positive mass by updates with delta_time >= 0.
C11_ExpansionPositive == expansion_factor > 0

\* a Red Giant grown to its target, after the Protostar contraction and the
\* Main Sequence growth
C11_Witness ==
    /\ stage = "Red Giant"
    /\ HasFuel
    /\ expansion_factor = RedGiantTarget(initial_mass)

\* C12: no update with delta_time < 0 changes age or any other attribute
\* (the call fails instead).
C12_NegativeStepRejected ==
    [][\A dt \in NegativeDeltaTimes : update(dt) => UNCHANGED vars]_vars

\* C13: no object with initial_mass <= 0 is ever produced.
C13_NoNonPositiveMass == initial_mass > 0

\* the band the half-open intervals [low, high) give a temperature
BandOf(temp) ==
    CASE temp \in 0..3499 -> Red
      [] temp \in 3500..4999 -> Orange
      [] temp \in 5000..5999 -> Yellow
      [] temp \in 6000..7499 -> White
      [] temp >= 7500 -> BlueWhite

\* C14: get_color returns the band of the half-open intervals: below 3500
\* red, [3500, 5000) orange, [5000, 6000) yellow, [6000, 7500) white, 7500
\* and above blue-white; 4000 is orange and 8000 is blue-white.
C14_ColorBands ==
    /\ color # NotRead => color = BandOf(temperature)
    /\ color # NotRead /\ temperature \in {3500, 4000} => color = Orange
    /\ color # NotRead /\ temperature = 5000 => color = Yellow
    /\ color # NotRead /\ temperature = 6000 => color = White
    /\ color # NotRead /\ temperature \in {7500, 8000} => color = BlueWhite

\* get_color has been read at the limit 5000 and returned yellow
C14_Witness == temperature = 5000 /\ color = Yellow

\* C15: for every positive luminosity get_emission returns a value in [0, 1].
C15_EmissionClamped ==
    emission # NotRead => emission[1] \in 0..EmissionScale

\* C16: after construction and after every update, Main Sequence implies
\* current_h2 > 0.1 and age >= formation time, Protostar implies age <
\* formation time, and the update that takes current_h2 from above 0.1 to 0.1
\* or below already yields Red Giant.
C16_StageReflectsThisCall ==
    /\ [](/\ stage = "Main Sequence" =>
                current_h2 * 10 > FuelScale /\ age >= FormationTime
          /\ stage = "Protostar" => age < FormationTime)
    /\ [][current_h2 * 10 > FuelScale /\ current_h2' * 10 <= FuelScale =>
             stage' = "Red Giant"]_vars

\* the update that burnt the last hydrogen has returned: Red Giant, with the
\* mass not yet touched
C16_Witness ==
    /\ stage = "Red Giant"
    /\ HasFuel
    /\ current_h2 = 0
    /\ current_mass = initial_mass

\* the Red Giant target of each star of Init
TargetOf == [m0 \in InitialMasses |-> RedGiantTarget(m0)]

AtTarget == expansion_factor = TargetOf[initial_mass]

\* C17: every update entered in Red Giant, whatever its delta_time, sets
\* expansion_factor to min(target, expansion_factor + 0.1), the target taken
\* from initial_mass; in Red Giant the factor never exceeds the target, and
\* after enough updates it equals the target and stays there.
C17_RedGiantRamp ==
    /\ [][stage = "Red Giant" =>
             /\ expansion_factor' =
                    Min(RedGiantTarget(initial_mass),
                        expansion_factor + ExpScale \div 10)
             /\ expansion_factor' >= expansion_factor]_vars
    /\ [](stage = "Red Giant" => expansion_factor <= TargetOf[initial_mass])
    /\ (stage = "Red Giant") ~> []AtTarget

\* a star of initial mass 2.0 at the target 100 though its current mass has
\* fallen to 1.44 or less
C17_Witness ==
    /\ initial_mass = TwoSolarMasses
    /\ stage = "Red Giant"
    /\ current_mass * 100 <= 144 * MassScale
    /\ expansion_factor = 100 * ExpScale

\* C18: the update in which the stage changes from Main Sequence to Red Giant
\* sets expansion_factor to min(target, 2 * expansion_factor + 0.1); every
\* other update that yields Red Giant adds the 0.1 only; and no update leads
\* from Red Giant back to Main Sequence, so the burst happens at most once.
C18_BurstOnceOnLeavingMainSequence ==
    [][/\ stage = "Main Sequence" /\ stage' = "Red Giant" =>
             expansion_factor' =
                 Min(RedGiantTarget(initial_mass),
                     2 * expansion_factor + ExpScale \div 10)
       /\ stage # "Main Sequence" /\ stage' = "Red Giant" =>
             expansion_factor' =
                 Min(RedGiantTarget(initial_mass),
                     expansion_factor + ExpScale \div 10)
       /\ stage = "Red Giant" => stage' = "Red Giant"]_vars

\* a star right after the burst: twice a Main Sequence factor plus 0.1, the
\* mass not yet touched
C18_Witness ==
    /\ stage = "Red Giant"
    /\ HasFuel
    /\ current_mass = initial_mass
    /\ expansion_factor > 2 * ExpScale + ExpScale \div 10
    /\ expansion_factor <= 3 * ExpScale + ExpScale \div 10

\* C19: an update changes current_h2 only when the stage at its entry is Main
\* Sequence; the update in which a star leaves Protostar burns nothing,
\* however far delta_time overshoots the formation time.
C19_FuelBurnsOnlyInMainSequence ==
    [][/\ stage # "Main Sequence" => current_h2' = current_h2
       /\ stage = "Protostar" /\ stage' # "Protostar" =>
             current_h2' = h2_percentage]_vars

\* a star taken from Protostar past the age horizon in one step, its
\* hydrogen as constructed
C19_Witness ==
    /\ stage = "Main Sequence"
    /\ age = MaxAge
    /\ current_h2 = h2_percentage

\* C20: current_mass is strictly positive in every state reached from the
\* construction of a star of positive mass by updates with delta_time >= 0.
C20_MassStaysPositive == current_mass > 0

====
